---- MODULE Spec2Model ----
(***************************************************************************)
(* Chart-image attachments of a trading journal: the storage service       *)
(* (ChartImageService), the upload component (ChartImageUpload) and the    *)
(* chart viewer (UniversalChartViewer).                                    *)
(*                                                                         *)
(* Every handler is one action.  A call of the persistence gateway         *)
(* (DatabaseService) has one of three outcomes, "ok", "fail" (it reports   *)
(* false) or "throw"; the outcome of each call is an input of the action.  *)
(***************************************************************************)
EXTENDS Integers, Sequences, FiniteSets, TLC

\* ------------------------------------------------------------- bounds
MaxTrades == 2
MaxBlobs == 2
MaxImages == 2
MaxSearchLen == 1
MaxLoads == 1
MaxPan == 1
MaxFetches == 3
MaxTasks == 2
MaxUploads == 2

\* ---------------------------------------------------------- constants
\* CHART_IMAGE_CONFIG, scaled: a file of size 1 is under the inline
\* threshold, size 3 is above it, size 5 is over the maximum.
INLINE_THRESHOLD == 2
MAX_FILE_SIZE == 4

\* preloadRange of preloadAdjacentImages.
PRELOAD_RANGE == 2

TradeIds == 1..MaxTrades
BlobIds == 1..MaxBlobs
ImageTypes == {"beforeEntry", "afterExit"}
ALLOWED_TYPES == {"image/png", "image/jpeg", "image/webp"}
File(mimeType, size) == [mimeType |-> mimeType, size |-> size]
Files == {File("image/png", 1), File("image/png", 3), File("image/png", 5),
          File("image/gif", 1)}
Outcomes == {"ok", "fail", "throw"}

VARIABLES
  trades,   \* ids of the trades the database holds
  slots,    \* slots[t][ty]: the ChartImage of trade t for image type ty
  blobs,    \* the ChartImageBlob rows of the database
  last,     \* the handler that ran last: its arguments, calls and result
  allImages,          \* UniversalChartViewer: the loaded images
  filter,             \* "all", "beforeEntry" or "afterExit"
  symbolSearch,       \* the text of the symbol search, a sequence of letters
  showSymbolDropdown,
  isOpen,             \* the isOpen prop
  initialChartImage,  \* the id of the initialChartImage prop, NoId for none
  currentIndex,       \* counted from 0
  isLoading,
  error,              \* an error message is set
  zoom,               \* a fraction
  position,
  isDragging,
  preloadedImages,    \* the ids of the preloaded images
  loads,              \* the pending calls of loadAllImages
  validation,         \* validateChartAttachments: its argument and result
  mounted,            \* ChartImageUpload: the component is mounted
  previewImage,       \* its currentImage prop
  previewUrl,         \* its previewUrl state
  fetches,            \* the pending calls of getChartImageDataUrl
  started,            \* how many of these calls were made
  createdUrls,        \* how many object URLs URL.createObjectURL made
  revokedUrls,        \* the object URLs passed to URL.revokeObjectURL
  tasks,              \* operations running at once, each at an await point
  start,              \* the trades and blob rows they started from
  isUploading,        \* ChartImageUpload: its isUploading state
  uploadProgress,     \* its uploadProgress state
  uploadError,        \* its error state is set
  uploads             \* the pending calls of attachChartImage

storeVars == <<trades, slots, blobs, last>>
viewerVars == <<allImages, filter, symbolSearch, showSymbolDropdown, isOpen,
                initialChartImage, currentIndex, isLoading, error, zoom,
                position, isDragging, preloadedImages, loads>>
vars == <<trades, slots, blobs, last,
          allImages, filter, symbolSearch, showSymbolDropdown, isOpen,
          initialChartImage, currentIndex, isLoading, error, zoom,
          position, isDragging, preloadedImages, loads,
          validation, mounted, previewImage, previewUrl, fetches, started,
          createdUrls, revokedUrls, tasks, start,
          isUploading, uploadProgress, uploadError, uploads>>
previewVars == <<mounted, previewImage, previewUrl, fetches, started,
                 createdUrls, revokedUrls>>
\* What the handlers of the service, of the viewer, of the validation and of
\* the preview leave alone.
uploadVars == <<isUploading, uploadProgress, uploadError, uploads>>
outsideStore == <<viewerVars, validation, previewVars, tasks, start, uploadVars>>
outsideViewer == <<storeVars, validation, previewVars, tasks, start, uploadVars>>
outsideValidation == <<storeVars, viewerVars, previewVars, tasks, start, uploadVars>>
outsidePreview == <<storeVars, viewerVars, validation, tasks, start, uploadVars>>
outsideTasks == <<slots, last, viewerVars, validation, previewVars, start,
                  uploadVars>>
outsideUpload == <<viewerVars, validation, previewVars, tasks, start>>

\* ------------------------------------------------------------- types
NoImage == [storage |-> "none", blobId |-> 0, size |-> 0]
\* An absent value (undefined), and the id that stands for no trade or row.
NoArg == [none |-> TRUE]
NoId == 0

ChartImage(storage, blobId, size) ==
  [storage |-> storage, blobId |-> blobId, size |-> size]

\* A possibly-throwing call: what it returned, whether it threw, the store
\* after it and the gateway calls it made.
Returned(ret, store, calls) ==
  [threw |-> FALSE, ret |-> ret, store |-> store, calls |-> calls]
Threw(store, calls) ==
  [threw |-> TRUE, ret |-> NoArg, store |-> store, calls |-> calls]

Call(fn, arg) == <<fn, arg>>

\* A boolean result as the value a call resolved to.
Value(r) == [r EXCEPT !.ret = [value |-> r.ret]]

\* The outcomes of the gateway calls of one operation: of its single call,
\* or of the calls of cleanupOrphanedBlobs.
NoCalls == [call |-> "none", list |-> "none", trades |-> "none", delete |-> <<>>]
OneCall(out) == [NoCalls EXCEPT !.call = out]

\* ------------------------------------------- persistence gateway
RowsOfTrade(store, tradeId) == {r \in store : r.tradeId = tradeId}

saveChartImageBlob(store, row, out) ==
  IF out = "throw" THEN Threw(store, <<Call("saveChartImageBlob", row.id)>>)
  ELSE Returned(out = "ok",
                IF out = "ok"
                  THEN {r \in store : r.id # row.id} \cup {row}
                  ELSE store,
                <<Call("saveChartImageBlob", row.id)>>)

getChartImageBlob(store, id, out) ==
  IF out = "throw" THEN Threw(store, <<Call("getChartImageBlob", id)>>)
  ELSE Returned(IF out = "ok" THEN {r \in store : r.id = id} ELSE {},
                store, <<Call("getChartImageBlob", id)>>)

deleteChartImageBlob(store, id, out) ==
  IF out = "throw" THEN Threw(store, <<Call("deleteChartImageBlob", id)>>)
  ELSE Returned(out = "ok",
                IF out = "ok" THEN {r \in store : r.id # id} ELSE store,
                <<Call("deleteChartImageBlob", id)>>)

\* kept: the rows of the trade a failing bulk deletion leaves behind.
deleteTradeChartImageBlobs(store, tradeId, out, kept) ==
  IF out = "throw"
    THEN Threw(store, <<Call("deleteTradeChartImageBlobs", tradeId)>>)
    ELSE Returned(out = "ok",
                  IF out = "ok"
                    THEN store \ RowsOfTrade(store, tradeId)
                    ELSE (store \ RowsOfTrade(store, tradeId)) \cup kept,
                  <<Call("deleteTradeChartImageBlobs", tradeId)>>)

RECURSIVE RowsById(_)
RowsById(S) ==
  IF S = {} THEN <<>>
  ELSE LET m == CHOOSE x \in S : \A y \in S : x.id <= y.id
       IN <<m>> \o RowsById(S \ {m})

getAllChartImageBlobs(store, out) ==
  IF out = "ok"
    THEN Returned(RowsById(store), store, <<Call("getAllChartImageBlobs", NoId)>>)
    ELSE Threw(store, <<Call("getAllChartImageBlobs", NoId)>>)

getAllTrades(store, tradeSet, out) ==
  IF out = "ok"
    THEN Returned(tradeSet, store, <<Call("getAllTrades", NoId)>>)
    ELSE Threw(store, <<Call("getAllTrades", NoId)>>)

\* ------------------------------------------------ chartImageUtils
validateImageFile(file) ==
  file.mimeType \in ALLOWED_TYPES /\ file.size <= MAX_FILE_SIZE

\* blobId: the id generateId() hands out.
createChartImage(file, blobId) ==
  IF ~validateImageFile(file) THEN Threw({}, <<>>)
  ELSE IF file.size < INLINE_THRESHOLD
    THEN Returned(ChartImage("inline", 0, file.size), {}, <<>>)
    ELSE Returned(ChartImage("blob", blobId, file.size), {}, <<>>)

\* ---------------------------------------------- ChartImageService
AttachFailed == [success |-> FALSE, chartImage |-> NoImage, error |-> TRUE]
AttachDone(chartImage) ==
  [success |-> TRUE, chartImage |-> chartImage, error |-> FALSE]


\* attachChartImage returning the blob descriptor without saving its row.
attachChartImageTry_NoSave(store, tradeId, imageType, file, blobId, out) ==
  LET created == createChartImage(file, blobId) IN
  IF created.threw THEN Threw(store, <<>>)
  ELSE Returned(AttachDone(created.ret), store, <<>>)

\* attachChartImage not looking at what saveChartImageBlob returned.
attachChartImageTry_IgnoresSaved(store, tradeId, imageType, file, blobId, out) ==
  LET created == createChartImage(file, blobId) IN
  IF created.threw THEN Threw(store, <<>>)
  ELSE LET chartImage == created.ret IN
    IF chartImage.storage = "blob" /\ chartImage.blobId # 0
      THEN LET imageBlob == [id |-> chartImage.blobId, tradeId |-> tradeId,
                             imageType |-> imageType, size |-> chartImage.size]
               saved == saveChartImageBlob(store, imageBlob, out)
           IN Returned(AttachDone(chartImage), saved.store, saved.calls)
      ELSE Returned(AttachDone(chartImage), store, <<>>)

attachChartImageTry(store, tradeId, imageType, file, blobId, out) ==
  LET created == createChartImage(file, blobId) IN
  IF created.threw THEN Threw(store, <<>>)
  ELSE LET chartImage == created.ret IN
    IF chartImage.storage = "blob" /\ chartImage.blobId # 0
      THEN LET imageBlob == [id |-> chartImage.blobId, tradeId |-> tradeId,
                             imageType |-> imageType, size |-> chartImage.size]
               saved == saveChartImageBlob(store, imageBlob, out)
           IN IF saved.threw THEN saved
              ELSE IF ~saved.ret
                THEN Returned(AttachFailed, saved.store, saved.calls)
                ELSE Returned(AttachDone(chartImage), saved.store, saved.calls)
      ELSE Returned(AttachDone(chartImage), store, <<>>)

attachChartImage(store, tradeId, imageType, file, blobId, out) ==
  LET r == attachChartImageTry(store, tradeId, imageType, file, blobId, out)
  IN IF r.threw THEN Returned(AttachFailed, r.store, r.calls) ELSE r

\* deleteChartImage leaving the blob row in place.
deleteChartImageTry_KeepsBlob(store, tradeId, imageType, chartImage, out) ==
  Returned(TRUE, store, <<>>)

deleteChartImageTry(store, tradeId, imageType, chartImage, out) ==
  IF chartImage.storage = "blob" /\ chartImage.blobId # 0
    THEN LET deleted == deleteChartImageBlob(store, chartImage.blobId, out)
         IN IF deleted.threw THEN deleted
            ELSE Returned(TRUE, deleted.store, deleted.calls)
    ELSE Returned(TRUE, store, <<>>)

deleteChartImage(store, tradeId, imageType, chartImage, out) ==
  LET r == deleteChartImageTry(store, tradeId, imageType, chartImage, out)
  IN IF r.threw THEN Returned(FALSE, r.store, r.calls) ELSE r

\* deleteTradeChartImages passing the gateway's report on.
deleteTradeChartImagesTry_ReturnsDeleted(store, tradeId, out, kept) ==
  deleteTradeChartImageBlobs(store, tradeId, out, kept)

deleteTradeChartImagesTry(store, tradeId, out, kept) ==
  LET deleted == deleteTradeChartImageBlobs(store, tradeId, out, kept)
  IN IF deleted.threw THEN deleted
     ELSE Returned(TRUE, deleted.store, deleted.calls)

deleteTradeChartImages(store, tradeId, out, kept) ==
  LET r == deleteTradeChartImagesTry(store, tradeId, out, kept)
  IN IF r.threw THEN Returned(FALSE, r.store, r.calls) ELSE r

\* getImageDataUrl turns the inline data into a data: URL; URL.createObjectURL
\* makes a blob: URL of the row's data.
DataUrl == [kind |-> "data", blobId |-> 0]
ObjectUrl(id) == [kind |-> "blob", blobId |-> id]
NullUrl == [kind |-> "null", blobId |-> 0]

getChartImageDataUrlTry(store, chartImage, out) ==
  IF chartImage.storage = "inline" THEN Returned(DataUrl, store, <<>>)
  ELSE IF chartImage.storage = "blob" /\ chartImage.blobId # 0
    THEN LET got == getChartImageBlob(store, chartImage.blobId, out)
         IN IF got.threw THEN got
            ELSE IF got.ret # {}
              THEN Returned(ObjectUrl(chartImage.blobId), store, got.calls)
              ELSE Returned(NullUrl, store, got.calls)
    ELSE Returned(NullUrl, store, <<>>)

getChartImageDataUrl(store, chartImage, out) ==
  LET r == getChartImageDataUrlTry(store, chartImage, out)
  IN IF r.threw THEN Returned(NullUrl, r.store, r.calls) ELSE r

\* The reduce of getStorageStats adding one for each row.
SumSizes_CountsRows(rows) == Len(rows)

RECURSIVE SumSizes(_)
SumSizes(rows) ==
  IF rows = <<>> THEN 0 ELSE Head(rows).size + SumSizes(Tail(rows))

Stats(images, size) ==
  [totalImages |-> images, totalSize |-> size, inlineImages |-> 0,
   inlineSize |-> 0, blobImages |-> images, blobSize |-> size]

getStorageStatsTry(store, out) ==
  LET listed == getAllChartImageBlobs(store, out)
  IN IF listed.threw THEN listed
     ELSE LET allBlobs == listed.ret
              blobSize == SumSizes(allBlobs)
          IN Returned(Stats(Len(allBlobs), blobSize), store, listed.calls)

getStorageStats(store, out) ==
  LET r == getStorageStatsTry(store, out)
  IN IF r.threw THEN Returned(Stats(0, 0), r.store, r.calls) ELSE r

\* The loop of cleanupOrphanedBlobs over the listed rows; outs[id] is the
\* outcome of deleting row id.  acc.ret holds the counters.
RECURSIVE cleanupLoop(_, _, _, _)
cleanupLoop(rest, tradeIds, outs, acc) ==
  IF rest = <<>> \/ acc.threw THEN acc
  ELSE LET blob == Head(rest) IN
    IF blob.tradeId \notin tradeIds
      THEN LET deleted == deleteChartImageBlob(acc.store, blob.id, outs[blob.id])
           IN IF deleted.threw
                THEN Threw(acc.store, acc.calls \o deleted.calls)
                ELSE cleanupLoop(Tail(rest), tradeIds, outs,
                       Returned([cleaned |-> acc.ret.cleaned + (IF deleted.ret THEN 1 ELSE 0),
                                 errors |-> acc.ret.errors + (IF deleted.ret THEN 0 ELSE 1)],
                                deleted.store, acc.calls \o deleted.calls))
      ELSE cleanupLoop(Tail(rest), tradeIds, outs, acc)


\* cleanupOrphanedBlobs building an empty set of trade ids.
cleanupOrphanedBlobsTry_NoTradeIds(store, tradeSet, listOut, tradesOut, outs) ==
  LET listed == getAllChartImageBlobs(store, listOut) IN
  IF listed.threw THEN listed
  ELSE LET allTrades == getAllTrades(store, tradeSet, tradesOut) IN
    IF allTrades.threw THEN Threw(store, listed.calls \o allTrades.calls)
    ELSE cleanupLoop(listed.ret, {}, outs,
                     Returned([cleaned |-> 0, errors |-> 0], store,
                              listed.calls \o allTrades.calls))

cleanupOrphanedBlobsTry(store, tradeSet, listOut, tradesOut, outs) ==
  LET listed == getAllChartImageBlobs(store, listOut) IN
  IF listed.threw THEN listed
  ELSE LET allTrades == getAllTrades(store, tradeSet, tradesOut) IN
    IF allTrades.threw THEN Threw(store, listed.calls \o allTrades.calls)
    ELSE cleanupLoop(listed.ret, allTrades.ret, outs,
                     Returned([cleaned |-> 0, errors |-> 0], store,
                              listed.calls \o allTrades.calls))


\* cleanupOrphanedBlobs without its try/catch.
cleanupOrphanedBlobs_NoCatch(store, tradeSet, listOut, tradesOut, outs) ==
  cleanupOrphanedBlobsTry(store, tradeSet, listOut, tradesOut, outs)

cleanupOrphanedBlobs(store, tradeSet, listOut, tradesOut, outs) ==
  LET r == cleanupOrphanedBlobsTry(store, tradeSet, listOut, tradesOut, outs)
  IN IF r.threw THEN Returned([cleaned |-> 0, errors |-> 1], r.store, r.calls)
     ELSE r

\* ------------------------------------------------------- the state
NoUi == [error |-> FALSE, attachCalled |-> FALSE, uploaded |-> FALSE,
         deleteCalled |-> FALSE, deleted |-> FALSE, isUploading |-> FALSE]

Last(op, tradeId, imageType, arg, outs, r, ui) ==
  [op |-> op, tradeId |-> tradeId, imageType |-> imageType, arg |-> arg,
   outs |-> outs, threw |-> r.threw, ret |-> r.ret, calls |-> r.calls,
   ui |-> ui]

EmptySlots == [ty \in ImageTypes |-> NoImage]

UsedIds ==
  {r.id : r \in blobs}
    \cup {slots[t][ty].blobId : t \in TradeIds, ty \in ImageTypes}

\* generateId() never hands out an id that is in use.
generateId == BlobIds \ UsedIds

InitStore ==
  /\ trades = {}
  /\ slots = [t \in TradeIds |-> EmptySlots]
  /\ blobs = {}
  /\ last = Last("init", NoId, "none", NoArg, NoCalls, Returned(NoArg, {}, <<>>), NoUi)

\* ----------------------------------------------- trades (the caller)
CreateTrade(t) ==
  /\ t \notin trades
  /\ trades' = trades \cup {t}
  /\ last' = Last("createTrade", t, "none", NoArg, NoCalls, Returned(NoArg, {}, <<>>), NoUi)
  /\ UNCHANGED <<slots, blobs, outsideStore>>

\* Deleting a trade drops its record with its slots and deletes its blobs.
DeleteTrade(t, out, kept) ==
  /\ t \in trades
  /\ LET r == deleteTradeChartImages(blobs, t, out, kept) IN
       /\ trades' = trades \ {t}
       /\ slots' = [slots EXCEPT ![t] = EmptySlots]
       /\ blobs' = r.store
       /\ last' = Last("deleteTrade", t, "none", NoArg, OneCall(out), Value(r), NoUi)
       /\ UNCHANGED outsideStore

\* ------------------------------------------------ ChartImageUpload
\* onImageUploaded / onImageDeleted of the owner of the trade's slot.
onImageUploaded(s, tradeId, imageType, chartImage) ==
  [s EXCEPT ![tradeId][imageType] = chartImage]

onImageDeleted(s, tradeId, imageType) ==
  [s EXCEPT ![tradeId][imageType] = NoImage]

\* handleFileSelect going on to attachChartImage whatever the validation says.
handleFileSelect_SkipsValidation(tradeId, imageType, file, blobId, out) ==
  /\ tradeId \in trades
  /\ LET result == attachChartImage(blobs, tradeId, imageType, file, blobId, out)
         ok == ~result.threw /\ result.ret.success
                 /\ result.ret.chartImage # NoImage
     IN /\ blobs' = result.store
        /\ slots' = IF ok
                      THEN onImageUploaded(slots, tradeId, imageType,
                                           result.ret.chartImage)
                      ELSE slots
        /\ last' = Last("handleFileSelect", tradeId, imageType, file,
                        OneCall(out), result,
                        [NoUi EXCEPT !.attachCalled = TRUE,
                                     !.uploaded = ok, !.error = ~ok])
        /\ UNCHANGED <<trades, outsideStore>>

\* handleFileSelect of the component of slot (tradeId, imageType), not disabled.
handleFileSelect(tradeId, imageType, file, blobId, out) ==
  /\ tradeId \in trades
  /\ IF ~validateImageFile(file)
       THEN /\ last' = Last("handleFileSelect", tradeId, imageType, file,
                            OneCall(out), Returned(NoArg, blobs, <<>>),
                            [NoUi EXCEPT !.error = TRUE])
            /\ UNCHANGED <<trades, slots, blobs, outsideStore>>
       ELSE LET result == attachChartImage(blobs, tradeId, imageType, file, blobId, out)
                ok == ~result.threw /\ result.ret.success
                        /\ result.ret.chartImage # NoImage
            IN /\ blobs' = result.store
               /\ slots' = IF ok
                             THEN onImageUploaded(slots, tradeId, imageType,
                                                  result.ret.chartImage)
                             ELSE slots
               /\ last' = Last("handleFileSelect", tradeId, imageType, file,
                               OneCall(out), result,
                               [NoUi EXCEPT !.attachCalled = TRUE,
                                            !.uploaded = ok, !.error = ~ok])
               /\ UNCHANGED <<trades, outsideStore>>

\* handleDelete of the component of slot (tradeId, imageType), not disabled.
handleDelete(tradeId, imageType, out) ==
  /\ tradeId \in trades
  /\ slots[tradeId][imageType] # NoImage
  /\ LET currentImage == slots[tradeId][imageType]
         r == deleteChartImage(blobs, tradeId, imageType, currentImage, out)
         success == ~r.threw /\ r.ret
     IN /\ blobs' = r.store
        /\ slots' = IF success THEN onImageDeleted(slots, tradeId, imageType)
                    ELSE slots
        /\ last' = Last("handleDelete", tradeId, imageType, currentImage,
                        OneCall(out), Value(r),
                        [NoUi EXCEPT !.deleteCalled = TRUE,
                                     !.deleted = success, !.error = ~success])
        /\ UNCHANGED <<trades, outsideStore>>

\* ------------------------------------- direct calls of the service
DeleteTradeChartImages(tradeId, out, kept) ==
  LET r == deleteTradeChartImages(blobs, tradeId, out, kept) IN
    /\ blobs' = r.store
    /\ last' = Last("deleteTradeChartImages", tradeId, "none", NoArg,
                   OneCall(out), Value(r), NoUi)
    /\ UNCHANGED <<trades, slots, outsideStore>>

GetChartImageDataUrl(tradeId, imageType, out) ==
  /\ slots[tradeId][imageType] # NoImage
  /\ LET chartImage == slots[tradeId][imageType]
         r == getChartImageDataUrl(blobs, chartImage, out)
     IN /\ blobs' = r.store
        /\ last' = Last("getChartImageDataUrl", tradeId, imageType, chartImage,
                        OneCall(out), r, NoUi)
        /\ UNCHANGED <<trades, slots, outsideStore>>

GetStorageStats(out) ==
  LET r == getStorageStats(blobs, out) IN
    /\ blobs' = r.store
    /\ last' = Last("getStorageStats", NoId, "none", NoArg, OneCall(out), r, NoUi)
    /\ UNCHANGED <<trades, slots, outsideStore>>

Orphans(store, tradeSet) == {r \in store : r.tradeId \notin tradeSet}

\* outs: the outcome of deleting each orphaned row.
CleanupOrphanedBlobs(listOut, tradesOut, outs) ==
  LET r == cleanupOrphanedBlobs(blobs, trades, listOut, tradesOut,
                                [id \in BlobIds |-> IF id \in DOMAIN outs
                                                     THEN outs[id] ELSE "ok"])
  IN /\ blobs' = r.store
     /\ last' = Last("cleanupOrphanedBlobs", NoId, "none", NoArg,
                     [NoCalls EXCEPT !.list = listOut, !.trades = tradesOut,
                                     !.delete = outs],
                     r, NoUi)
     /\ UNCHANGED <<trades, slots, outsideStore>>

\* The inputs a handler reads: an outcome for each gateway call it makes and,
\* where a blob row is written, the id generateId() hands out.
UsesBlobStore(chartImage) ==
  chartImage.storage = "blob" /\ chartImage.blobId # 0

OutcomesIf(called) == IF called THEN Outcomes ELSE {"none"}

WritesBlob(file) ==
  validateImageFile(file) /\ UsesBlobStore(createChartImage(file, 1).ret)

KeptRows(t, out) ==
  IF out = "fail" THEN SUBSET RowsOfTrade(blobs, t) \ {{}} ELSE {{}}

NextStore ==
  \/ \E t \in TradeIds : CreateTrade(t)
  \/ \E t \in TradeIds, out \in Outcomes :
       \E kept \in KeptRows(t, out) : DeleteTrade(t, out, kept)
  \/ \E t \in TradeIds, ty \in ImageTypes, file \in Files :
       \E out \in OutcomesIf(WritesBlob(file)),
          blobId \in IF WritesBlob(file) THEN generateId ELSE {0} :
         handleFileSelect(t, ty, file, blobId, out)
  \/ \E t \in TradeIds, ty \in ImageTypes :
       \E out \in OutcomesIf(UsesBlobStore(slots[t][ty])) :
         handleDelete(t, ty, out)
  \/ \E t \in TradeIds, out \in Outcomes :
       \E kept \in KeptRows(t, out) : DeleteTradeChartImages(t, out, kept)
  \/ \E t \in TradeIds, ty \in ImageTypes :
       \E out \in OutcomesIf(UsesBlobStore(slots[t][ty])) :
         GetChartImageDataUrl(t, ty, out)
  \/ \E out \in {"ok", "throw"} : GetStorageStats(out)
  \/ \E listOut \in {"ok", "throw"} :
       \E tradesOut \in IF listOut = "ok" THEN {"ok", "throw"} ELSE {"none"} :
         \E outs \in [IF tradesOut = "ok"
                        THEN {r.id : r \in Orphans(blobs, trades)}
                        ELSE {} -> Outcomes] :
           CleanupOrphanedBlobs(listOut, tradesOut, outs)

\* --------------------------------------------- UniversalChartViewer
\* A symbol is a sequence of letters; <<>> stands for a missing tradeName.
Letters == {"a", "A", "b"}
TradeNames == {<<>>, <<"A", "b">>, <<"A">>}
FilterTypes == {"all", "beforeEntry", "afterExit"}
ImageIds == 1..MaxImages
Images == [id : ImageIds, imageType : ImageTypes, tradeName : TradeNames]

SeqsUpTo(S, n) == UNION {[1..k -> S] : k \in 0..n}

\* What getAllChartImageBlobsWithTradeInfo can list: rows with distinct
\* ids, in the order of their keys.
ImageLists ==
  {images \in SeqsUpTo(Images, MaxImages) :
     \A i, j \in 1..Len(images) : i < j => images[i].id < images[j].id}

\* String.prototype.toLowerCase
toLowerCaseLetter(c) ==
  CASE c = "A" -> "a"
    [] c = "B" -> "b"
    [] OTHER -> c

\* A comparison that keeps the case of the letters.
toLowerCase_KeepsCase(str) == str

toLowerCase(str) == [i \in 1..Len(str) |-> toLowerCaseLetter(str[i])]

\* String.prototype.includes
includes(str, searchString) ==
  \E i \in 0..(Len(str) - Len(searchString)) :
    SubSeq(str, i + 1, i + Len(searchString)) = searchString

TypeFilter(images, f) ==
  IF f # "all"
    THEN SelectSeq(images, LAMBDA img : img.imageType = f)
    ELSE images

SymbolFilter(images, search) ==
  IF search # <<>>
    THEN SelectSeq(images,
           LAMBDA img : img.tradeName # <<>>
                          /\ includes(toLowerCase(img.tradeName),
                                      toLowerCase(search)))
    ELSE images

Filtered(images, f, search) == SymbolFilter(TypeFilter(images, f), search)

filteredImages == Filtered(allImages, filter, symbolSearch)

\* The symbols the dropdown offers (at most ten, which the bounds never reach).
uniqueSymbols ==
  {allImages[i].tradeName : i \in 1..Len(allImages)} \ {<<>>}

filteredSymbols ==
  IF symbolSearch = <<>> THEN uniqueSymbols
  ELSE {symbol \in uniqueSymbols :
          includes(toLowerCase(symbol), toLowerCase(symbolSearch))}

\* Array.prototype.findIndex, indexes counted from 0, -1 when none matches;
\* tests[i] is what the callback returns for element i.
FindIndex(tests) ==
  IF \E i \in 1..Len(tests) : tests[i]
    THEN (CHOOSE i \in 1..Len(tests) :
            tests[i] /\ \A j \in 1..(i - 1) : ~tests[j]) - 1
    ELSE -1

\* The zoom factor is a fraction n/d in lowest terms.
GCD(a, b) == CHOOSE g \in 1..a : a % g = 0 /\ b % g = 0
                 /\ \A h \in (g + 1)..a : ~(a % h = 0 /\ b % h = 0)
Fraction(n, d) == [n |-> n \div GCD(n, d), d |-> d \div GCD(n, d)]
Less(p, q) == p.n * q.d < q.n * p.d
Min(p, q) == IF Less(q, p) THEN q ELSE p
Max(p, q) == IF Less(p, q) THEN q ELSE p
One == Fraction(1, 1)
ZOOM_STEP == Fraction(3, 2)
MAX_ZOOM == Fraction(5, 1)
MIN_ZOOM == Fraction(1, 2)
Origin == [x |-> 0, y |-> 0]
Positions == [x : 0..MaxPan, y : {0}]

InitViewer ==
  /\ allImages = <<>>
  /\ filter = "all"
  /\ symbolSearch = <<>>
  /\ showSymbolDropdown = FALSE
  /\ isOpen = FALSE
  /\ initialChartImage = NoId
  /\ currentIndex = 0
  /\ isLoading = FALSE
  /\ error = FALSE
  /\ zoom = One
  /\ position = Origin
  /\ isDragging = FALSE
  /\ preloadedImages = {}
  /\ loads = <<>>

\* preloadAdjacentImages(index, images) over the map `preloaded` its closure
\* holds; every loaded image has a dataUrl.
preloadAdjacentImages(preloaded, index, images) ==
  LET from == IF index - PRELOAD_RANGE > 0 THEN index - PRELOAD_RANGE ELSE 0
      to == IF index + PRELOAD_RANGE < Len(images) - 1
              THEN index + PRELOAD_RANGE ELSE Len(images) - 1
  IN preloaded \cup {images[i + 1].id : i \in from..to}

\* The effect on [initialChartImage, filteredImages].
InitialImageEffect(index, filtered, initial) ==
  IF initial # NoId /\ Len(filtered) > 0
    THEN LET found == FindIndex([i \in 1..Len(filtered) |-> filtered[i].id = initial])
         IN IF found >= 0 THEN found ELSE index
    ELSE index

\* The effects that run after filter or symbolSearch changed: the one on
\* [initialChartImage, filteredImages], then the reset on [filter, symbolSearch].
ResetIndexEffect(index, changed) == IF changed THEN 0 ELSE index

\* The synchronous part of loadAllImages; the call then awaits the gateway
\* and the FileReader of each image.  A pending call keeps the preloaded map
\* of the render it was started from.
StartLoad == [preloaded |-> preloadedImages]

Remove(s, k) == SubSeq(s, 1, k - 1) \o SubSeq(s, k + 1, Len(s))

viewVars == <<zoom, position, isDragging>>
listVars == <<allImages, filter, symbolSearch, showSymbolDropdown>>

\* The parent opens the viewer: the effect on [isOpen] calls loadAllImages.
open(initial) ==
  /\ ~isOpen
  /\ Len(loads) < MaxLoads
  /\ isOpen' = TRUE
  /\ initialChartImage' = initial
  /\ isLoading' = TRUE
  /\ error' = FALSE
  /\ loads' = Append(loads, StartLoad)
  /\ currentIndex' = IF initial # initialChartImage
                       THEN InitialImageEffect(currentIndex, filteredImages, initial)
                       ELSE currentIndex
  /\ UNCHANGED <<listVars, viewVars, preloadedImages, outsideViewer>>

\* onOpenChange(false): Escape, the close buttons.  The effect on [isOpen]
\* drops the preloaded images and resets zoom and position.
close ==
  /\ isOpen
  /\ isOpen' = FALSE
  /\ preloadedImages' = {}
  /\ zoom' = One
  /\ position' = Origin
  /\ UNCHANGED <<listVars, initialChartImage, currentIndex, isLoading, error,
                 isDragging, loads, outsideViewer>>

\* The retry button of the error message.
retry ==
  /\ isOpen /\ ~isLoading /\ error
  /\ Len(loads) < MaxLoads
  /\ isLoading' = TRUE
  /\ error' = FALSE
  /\ loads' = Append(loads, StartLoad)
  /\ UNCHANGED <<listVars, isOpen, initialChartImage, currentIndex, viewVars,
                 preloadedImages, outsideViewer>>

\* Pending call k of loadAllImages settles with the images whose data was
\* read: setAllImages, preloadAdjacentImages(0, images), isLoading false.
loadAllImages(k, images) ==
  /\ k \in 1..Len(loads)
  /\ allImages' = images
  /\ preloadedImages' = preloadAdjacentImages(loads[k].preloaded, 0, images)
  /\ isLoading' = FALSE
  /\ loads' = Remove(loads, k)
  /\ currentIndex' = InitialImageEffect(currentIndex,
                                         Filtered(images, filter, symbolSearch),
                                         initialChartImage)
  /\ UNCHANGED <<filter, symbolSearch, showSymbolDropdown, isOpen,
                 initialChartImage, error, viewVars, outsideViewer>>

\* The gateway call of pending call k throws: the error is set.
loadAllImagesFails(k) ==
  /\ k \in 1..Len(loads)
  /\ error' = TRUE
  /\ isLoading' = FALSE
  /\ loads' = Remove(loads, k)
  /\ UNCHANGED <<listVars, isOpen, initialChartImage, currentIndex, viewVars,
                 preloadedImages, outsideViewer>>

\* A FileReader of pending call k fails: only onload is handled, so the
\* promise the call awaits never settles and the call never resumes.
loadAllImagesStalls(k) ==
  /\ k \in 1..Len(loads)
  /\ loads' = Remove(loads, k)
  /\ UNCHANGED <<listVars, isOpen, initialChartImage, currentIndex, isLoading,
                 error, viewVars, preloadedImages, outsideViewer>>

setFilter(f) ==
  /\ isOpen
  /\ filter' = f
  /\ currentIndex' = ResetIndexEffect(currentIndex, f # filter)
  /\ UNCHANGED <<allImages, symbolSearch, showSymbolDropdown, isOpen,
                 initialChartImage, isLoading, error, viewVars,
                 preloadedImages, loads, outsideViewer>>

handleSymbolSearchChange(value) ==
  /\ isOpen
  /\ symbolSearch' = value
  /\ showSymbolDropdown' = (Len(value) > 0)
  /\ currentIndex' = ResetIndexEffect(currentIndex, value # symbolSearch)
  /\ UNCHANGED <<allImages, filter, isOpen, initialChartImage, isLoading,
                 error, viewVars, preloadedImages, loads, outsideViewer>>

\* The clear button of the search input, shown while symbolSearch is set.
clearSymbolSearch ==
  /\ isOpen
  /\ symbolSearch # <<>>
  /\ symbolSearch' = <<>>
  /\ showSymbolDropdown' = FALSE
  /\ currentIndex' = 0
  /\ UNCHANGED <<allImages, filter, isOpen, initialChartImage, isLoading,
                 error, viewVars, preloadedImages, loads, outsideViewer>>

\* A symbol of the dropdown is picked.
handleSymbolSelect(symbol) ==
  /\ isOpen /\ showSymbolDropdown
  /\ symbol \in filteredSymbols
  /\ symbolSearch' = symbol
  /\ showSymbolDropdown' = FALSE
  /\ LET symbolIndex == FindIndex([i \in 1..Len(filteredImages) |->
                                     filteredImages[i].tradeName = symbol])
         selected == IF symbolIndex >= 0 THEN symbolIndex ELSE currentIndex
     IN currentIndex' = ResetIndexEffect(selected, symbol # symbolSearch)
  /\ UNCHANGED <<allImages, filter, isOpen, initialChartImage, isLoading,
                 error, viewVars, preloadedImages, loads, outsideViewer>>

\* The search input gains and loses the focus.
searchFocus ==
  /\ isOpen
  /\ showSymbolDropdown' = (Len(symbolSearch) > 0)
  /\ UNCHANGED <<allImages, filter, symbolSearch, isOpen, initialChartImage,
                 currentIndex, isLoading, error, viewVars, preloadedImages,
                 loads, outsideViewer>>

searchBlur ==
  /\ isOpen
  /\ showSymbolDropdown' = FALSE
  /\ UNCHANGED <<allImages, filter, symbolSearch, isOpen, initialChartImage,
                 currentIndex, isLoading, error, viewVars, preloadedImages,
                 loads, outsideViewer>>

\* Navigation that moves the index past the ends of the list.
navigateNext_Unclamped ==
  /\ isOpen
  /\ currentIndex' = currentIndex + 1
  /\ UNCHANGED <<listVars, isOpen, initialChartImage, isLoading, error,
                 viewVars, preloadedImages, loads, outsideViewer>>

navigateNext ==
  /\ isOpen
  /\ IF currentIndex < Len(filteredImages) - 1
       THEN LET newIndex == currentIndex + 1 IN
              /\ currentIndex' = newIndex
              /\ preloadedImages' =
                   preloadAdjacentImages(preloadedImages, newIndex, filteredImages)
              /\ zoom' = One
              /\ position' = Origin
       ELSE UNCHANGED <<currentIndex, preloadedImages, zoom, position>>
  /\ UNCHANGED <<listVars, isOpen, initialChartImage, isLoading, error,
                 isDragging, loads, outsideViewer>>

navigatePrevious ==
  /\ isOpen
  /\ IF currentIndex > 0
       THEN LET newIndex == currentIndex - 1 IN
              /\ currentIndex' = newIndex
              /\ preloadedImages' =
                   preloadAdjacentImages(preloadedImages, newIndex, filteredImages)
              /\ zoom' = One
              /\ position' = Origin
       ELSE UNCHANGED <<currentIndex, preloadedImages, zoom, position>>
  /\ UNCHANGED <<listVars, isOpen, initialChartImage, isLoading, error,
                 isDragging, loads, outsideViewer>>

resetZoom ==
  /\ isOpen
  /\ zoom' = One
  /\ position' = Origin
  /\ UNCHANGED <<listVars, isOpen, initialChartImage, currentIndex, isLoading,
                 error, isDragging, preloadedImages, loads, outsideViewer>>

Times(p, q) == Fraction(p.n * q.n, p.d * q.d)
Over(p, q) == Fraction(p.n * q.d, p.d * q.n)

\* Zooming in without the upper limit.
handleZoomIn_Uncapped ==
  /\ isOpen
  /\ zoom' = Times(zoom, ZOOM_STEP)
  /\ UNCHANGED <<listVars, isOpen, initialChartImage, currentIndex, isLoading,
                 error, position, isDragging, preloadedImages, loads, outsideViewer>>

handleZoomIn ==
  /\ isOpen
  /\ zoom' = Min(Times(zoom, ZOOM_STEP), MAX_ZOOM)
  /\ UNCHANGED <<listVars, isOpen, initialChartImage, currentIndex, isLoading,
                 error, position, isDragging, preloadedImages, loads, outsideViewer>>

handleZoomOut ==
  /\ isOpen
  /\ zoom' = Max(Over(zoom, ZOOM_STEP), MIN_ZOOM)
  /\ UNCHANGED <<listVars, isOpen, initialChartImage, currentIndex, isLoading,
                 error, position, isDragging, preloadedImages, loads, outsideViewer>>

\* The image is on screen: loading is over without an error and the
\* current index names an image of the filtered list.
ImageShown ==
  /\ isOpen /\ ~isLoading /\ ~error
  /\ currentIndex < Len(filteredImages)

\* onClick of the image: handleZoomIn while zoom === 1, nothing otherwise.
imageClick ==
  /\ ImageShown
  /\ zoom = One
  /\ handleZoomIn

handleMouseDown ==
  /\ ImageShown
  /\ Less(One, zoom)
  /\ isDragging' = TRUE
  /\ UNCHANGED <<listVars, isOpen, initialChartImage, currentIndex, isLoading,
                 error, zoom, position, preloadedImages, loads, outsideViewer>>

\* The pointer moves while dragging: the position follows it.
handleMouseMove(p) ==
  /\ ImageShown
  /\ isDragging /\ Less(One, zoom)
  /\ position' = p
  /\ UNCHANGED <<listVars, isOpen, initialChartImage, currentIndex, isLoading,
                 error, zoom, isDragging, preloadedImages, loads, outsideViewer>>

handleMouseUp ==
  /\ ImageShown
  /\ isDragging' = FALSE
  /\ UNCHANGED <<listVars, isOpen, initialChartImage, currentIndex, isLoading,
                 error, zoom, position, preloadedImages, loads, outsideViewer>>

\* The viewer is opened and closed and the images are loaded from `lists`.
LifecycleActions(lists, initials) ==
  \/ \E initial \in initials : open(initial)
  \/ close
  \/ retry
  \/ \E k \in 1..MaxLoads :
       \/ \E images \in lists : loadAllImages(k, images)
       \/ loadAllImagesFails(k)
       \/ loadAllImagesStalls(k)

SearchActions ==
  \/ \E value \in SeqsUpTo(Letters, MaxSearchLen) : handleSymbolSearchChange(value)
  \/ clearSymbolSearch
  \/ \E symbol \in TradeNames : handleSymbolSelect(symbol)
  \/ searchFocus
  \/ searchBlur

NavigationActions ==
  \/ navigateNext
  \/ navigatePrevious

\* The handlers of zoom and pan.
ZoomActions ==
  \/ resetZoom
  \/ handleZoomIn
  \/ handleZoomOut
  \/ imageClick
  \/ handleMouseDown
  \/ \E p \in Positions : handleMouseMove(p)
  \/ handleMouseUp

\* The list of images: loaded, filtered, searched and walked through.
NextViewer ==
  \/ LifecycleActions(ImageLists, {NoId} \cup ImageIds)
  \/ \E f \in FilterTypes : setFilter(f)
  \/ SearchActions
  \/ NavigationActions

\* Zoom and pan, over the lists of the images of one symbol.
ZoomLists == {images \in ImageLists :
                \A i \in 1..Len(images) : images[i].tradeName = <<"A", "b">>}

NextZoom ==
  \/ LifecycleActions(ZoomLists, {NoId})
  \/ \E f \in FilterTypes : setFilter(f)
  \/ NavigationActions
  \/ ZoomActions

\* ------------------------------------------- validateChartAttachments
\* A JavaScript value as far as the validation looks at it: its typeof, its
\* truthiness and, of an object, the properties read.  Of id, filename and
\* size the typeof is kept, of uploadedAt the constructor, of mimeType and
\* storage the value.
PropertyTypes == {"string", "number"}
NoProperties == [id |-> "undefined", filename |-> "undefined",
                 mimeType |-> [type |-> "undefined", text |-> ""],
                 size |-> "undefined", uploadedAt |-> "undefined",
                 storage |-> "undefined"]
NotAnObject(type, truthy) ==
  [type |-> type, truthy |-> truthy, properties |-> NoProperties]
\* undefined, null, 0, 1, "", "x", false, true
NonObjects == {NotAnObject("undefined", FALSE), NotAnObject("object", FALSE),
               NotAnObject("number", FALSE), NotAnObject("number", TRUE),
               NotAnObject("string", FALSE), NotAnObject("string", TRUE),
               NotAnObject("boolean", FALSE), NotAnObject("boolean", TRUE)}
ChartImageProperties ==
  [id : PropertyTypes, filename : PropertyTypes,
   mimeType : {[type |-> "string", text |-> "image/png"],
               [type |-> "string", text |-> "image/gif"],
               [type |-> "number", text |-> ""]},
   size : PropertyTypes, uploadedAt : {"Date", "string"},
   storage : {"inline", "blob", "other"}]
ChartImageValues ==
  NonObjects \cup {[type |-> "object", truthy |-> TRUE, properties |-> ps] :
                     ps \in ChartImageProperties}
NoEntries == [beforeEntry |-> NotAnObject("undefined", FALSE),
              afterExit |-> NotAnObject("undefined", FALSE)]
ChartAttachmentsValues ==
  {[type |-> v.type, truthy |-> v.truthy, entries |-> NoEntries] :
     v \in NonObjects}
  \cup {[type |-> "object", truthy |-> TRUE, entries |-> es] :
          es \in [beforeEntry : ChartImageValues, afterExit : ChartImageValues]}

validateChartImage(chartImage) ==
  /\ chartImage.truthy
  /\ chartImage.type = "object"
  /\ chartImage.properties.id = "string"
  /\ chartImage.properties.filename = "string"
  /\ chartImage.properties.mimeType.type = "string"
  /\ chartImage.properties.size = "number"
  /\ chartImage.properties.uploadedAt = "Date"
  /\ chartImage.properties.storage \in {"inline", "blob"}
  /\ chartImage.properties.mimeType.text \in ALLOWED_TYPES

validateChartAttachments(chartAttachments) ==
  IF ~chartAttachments.truthy \/ chartAttachments.type # "object" THEN FALSE
  ELSE IF /\ chartAttachments.entries.beforeEntry.truthy
          /\ ~validateChartImage(chartAttachments.entries.beforeEntry)
    THEN FALSE
  ELSE IF /\ chartAttachments.entries.afterExit.truthy
          /\ ~validateChartImage(chartAttachments.entries.afterExit)
    THEN FALSE
  ELSE TRUE

Unvalidated(value) == [value |-> value, done |-> FALSE, ret |-> FALSE]

InitValidation ==
  validation = Unvalidated([type |-> "undefined", truthy |-> FALSE,
                            entries |-> NoEntries])

\* validateChartAttachments is applied to the value at hand.
validate ==
  /\ ~validation.done
  /\ validation' = [validation EXCEPT
                      !.done = TRUE,
                      !.ret = validateChartAttachments(validation.value)]
  /\ UNCHANGED outsideValidation

NextValidate == validate

\* ------------------------------------- ChartImageUpload: the preview
\* The currentImage prop: a ChartImage, with or without a dataUrl.
PreviewImage(storage, blobId, size, dataUrl) ==
  [storage |-> storage, blobId |-> blobId, size |-> size, dataUrl |-> dataUrl]
NoPreviewImage == PreviewImage("none", 0, 0, FALSE)
PreviewImages ==
  {NoPreviewImage, PreviewImage("inline", 0, 1, TRUE),
   PreviewImage("inline", 0, 1, FALSE)}
  \cup {PreviewImage("blob", id, 3, FALSE) : id \in BlobIds}

\* A URL; n tells the object URLs apart, in the order of their creation.
PreviewUrl(url, n) == [url |-> url, n |-> n]
NoPreviewUrl == PreviewUrl(NullUrl, 0)

InitPreview ==
  /\ mounted = FALSE
  /\ previewImage = NoPreviewImage
  /\ previewUrl = NoPreviewUrl
  /\ fetches = <<>>
  /\ started = 0
  /\ createdUrls = 0
  /\ revokedUrls = {}

\* The cleanup of the effect on [previewUrl].
RevokeObjectUrl(url) == IF url.url.kind = "blob" THEN {url.n} ELSE {}

\* setPreviewUrl of a mounted component: when the value changes the cleanup
\* of the effect on [previewUrl] runs with the value before.
setPreviewUrl(url) ==
  /\ previewUrl' = url
  /\ revokedUrls' = IF url # previewUrl
                      THEN revokedUrls \cup RevokeObjectUrl(previewUrl)
                      ELSE revokedUrls

\* The effect on [currentImage].
PreviewEffect(image) ==
  IF image # NoPreviewImage
    THEN IF image.dataUrl
           THEN /\ setPreviewUrl(PreviewUrl(DataUrl, 0))
                /\ UNCHANGED <<fetches, started>>
           ELSE /\ started < MaxFetches
                /\ fetches' = Append(fetches, [image |-> image, orphaned |-> FALSE])
                /\ started' = started + 1
                /\ UNCHANGED <<previewUrl, revokedUrls>>
    ELSE /\ setPreviewUrl(NoPreviewUrl)
         /\ UNCHANGED <<fetches, started>>

\* The component is mounted with a currentImage.
mount(image) ==
  /\ ~mounted
  /\ mounted' = TRUE
  /\ previewImage' = image
  /\ PreviewEffect(image)
  /\ UNCHANGED <<createdUrls, outsidePreview>>

\* The parent renders the component with another currentImage.
render(image) ==
  /\ mounted
  /\ previewImage' = image
  /\ PreviewEffect(image)
  /\ UNCHANGED <<mounted, createdUrls, outsidePreview>>

\* The component is unmounted: the cleanup of the effect on [previewUrl]
\* runs, the state is dropped, the pending calls go on.
unmount ==
  /\ mounted
  /\ mounted' = FALSE
  /\ previewImage' = NoPreviewImage
  /\ previewUrl' = NoPreviewUrl
  /\ revokedUrls' = revokedUrls \cup RevokeObjectUrl(previewUrl)
  /\ fetches' = [k \in 1..Len(fetches) |-> [fetches[k] EXCEPT !.orphaned = TRUE]]
  /\ UNCHANGED <<started, createdUrls, outsidePreview>>

\* The row of a blob id, when the store holds one.
StoreWith(found, id) ==
  IF found THEN {[id |-> id, tradeId |-> 1, imageType |-> "beforeEntry", size |-> 3]}
  ELSE {}

\* Pending call k of getChartImageDataUrl resolves and its then-callback
\* calls setPreviewUrl, which does nothing once the component is unmounted.
getChartImageDataUrlResolves(k, found, out) ==
  /\ k \in 1..Len(fetches)
  /\ LET image == fetches[k].image
         r == getChartImageDataUrl(StoreWith(found, image.blobId), image, out)
         isObjectUrl == r.ret.kind = "blob"
         url == PreviewUrl(r.ret, IF isObjectUrl THEN createdUrls + 1 ELSE 0)
     IN /\ createdUrls' = IF isObjectUrl THEN createdUrls + 1 ELSE createdUrls
        /\ IF fetches[k].orphaned
             THEN UNCHANGED <<previewUrl, revokedUrls>>
             ELSE setPreviewUrl(url)
  /\ fetches' = Remove(fetches, k)
  /\ UNCHANGED <<mounted, previewImage, started, outsidePreview>>

Resolves ==
  \E k \in 1..MaxFetches, found \in BOOLEAN, out \in Outcomes :
    getChartImageDataUrlResolves(k, found, out)

NextPreview ==
  \/ \E image \in PreviewImages : mount(image)
  \/ \E image \in PreviewImages : render(image)
  \/ unmount
  \/ Resolves

\* ------------------------------------- ChartImageUpload: the uploads
InitUpload ==
  /\ isUploading = FALSE
  /\ uploadProgress = 0
  /\ uploadError = FALSE
  /\ uploads = <<>>

\* handleFileInputChange or handleDrop hands a file to handleFileSelect,
\* which runs up to its await of attachChartImage: an invalid file takes it
\* through the return and the finally block at once, a valid file leaves a
\* pending call with its progress interval.  The drop zone and the file
\* input stay in place while isUploading is set.
handleFileSelectStarts(tradeId, imageType, file, disabled) ==
  IF disabled THEN UNCHANGED vars
  ELSE IF ~validateImageFile(file)
    THEN /\ uploadError' = TRUE
         /\ isUploading' = FALSE
         /\ uploadProgress' = 0
         /\ last' = Last("handleFileSelect", tradeId, imageType, file,
                         OneCall("none"), Returned(NoArg, blobs, <<>>),
                         [NoUi EXCEPT !.error = TRUE])
         /\ UNCHANGED <<trades, slots, blobs, uploads, outsideUpload>>
    ELSE /\ Len(uploads) < MaxUploads
         /\ uploadError' = FALSE
         /\ isUploading' = TRUE
         /\ uploadProgress' = 0
         /\ uploads' = Append(uploads, [tradeId |-> tradeId,
                                        imageType |-> imageType, file |-> file])
         /\ UNCHANGED <<storeVars, outsideUpload>>

\* The progress interval of a pending call fires.
progressInterval ==
  /\ uploads # <<>>
  /\ uploadProgress' = IF uploadProgress + 10 < 90 THEN uploadProgress + 10 ELSE 90
  /\ UNCHANGED <<isUploading, uploadError, uploads, storeVars, outsideUpload>>

\* Pending call k of attachChartImage resolves and handleFileSelect resumes:
\* it clears its interval, sets the progress to 100, reports the result and
\* runs its finally block.
attachChartImageResolves(k, blobId, out) ==
  /\ k \in 1..Len(uploads)
  /\ LET tradeId == uploads[k].tradeId
         imageType == uploads[k].imageType
         file == uploads[k].file
         result == attachChartImage(blobs, tradeId, imageType, file, blobId, out)
         ok == ~result.threw /\ result.ret.success
                 /\ result.ret.chartImage # NoImage
     IN /\ blobs' = result.store
        /\ slots' = IF ok
                      THEN onImageUploaded(slots, tradeId, imageType,
                                           result.ret.chartImage)
                      ELSE slots
        /\ last' = Last("handleFileSelect", tradeId, imageType, file,
                        OneCall(out), result,
                        [NoUi EXCEPT !.attachCalled = TRUE,
                                     !.uploaded = ok, !.error = ~ok])
        /\ uploadError' = IF ok THEN uploadError ELSE TRUE
  /\ isUploading' = FALSE
  /\ uploadProgress' = 0
  /\ uploads' = Remove(uploads, k)
  /\ UNCHANGED <<trades, outsideUpload>>

\* One component, of the beforeEntry slot of a trade.
NextUpload ==
  \/ \E tradeId \in trades, file \in Files, disabled \in BOOLEAN :
       handleFileSelectStarts(tradeId, "beforeEntry", file, disabled)
  \/ progressInterval
  \/ \E k \in 1..MaxUploads :
       \E out \in OutcomesIf(k <= Len(uploads) /\ WritesBlob(uploads[k].file)),
          blobId \in IF k <= Len(uploads) /\ WritesBlob(uploads[k].file)
                       THEN generateId ELSE {0} :
         attachChartImageResolves(k, blobId, out)

\* ------------------------------- operations running at the same time
\* An async operation gives way at each await; another operation's steps may
\* run before it resumes.  Every gateway call succeeds.
TaskOps == {"attachChartImage", "deleteChartImage", "deleteTradeChartImages",
            "cleanupOrphanedBlobs", "createTrade", "deleteTrade"}

NoResult == [success |-> FALSE, cleaned |-> 0, errors |-> 0]
Succeeded(success) == [NoResult EXCEPT !.success = success]
Cleaned(counts) ==
  [NoResult EXCEPT !.cleaned = counts.cleaned, !.errors = counts.errors]

\* An operation about to start.  id: the trade of attachChartImage,
\* deleteTradeChartImages, createTrade and deleteTrade, the blobId of the
\* image of deleteChartImage.
Task(op, id) ==
  [op |-> op, id |-> id, pc |-> "start", allBlobs |-> <<>>, tradeIds |-> {},
   ret |-> NoResult]

\* The image attachChartImage stores and the id generateId() gives it.
TaskFile == File("image/png", 3)
TaskBlobId == MaxBlobs
AllOk == [id \in BlobIds |-> "ok"]

StartTasks ==
  {Task(op, id) : op \in TaskOps \ {"cleanupOrphanedBlobs"}, id \in TradeIds}
    \cup {Task("cleanupOrphanedBlobs", NoId)}

\* The rows the operations find: at most the row of id 1, of trade 1.
StartRows == {[id |-> 1, tradeId |-> 1, imageType |-> "beforeEntry", size |-> 3]}

InitTasks ==
  /\ tasks = <<>>
  /\ start = [trades |-> {}, blobs |-> {}]

Done(task, ret) == [task EXCEPT !.pc = "done", !.ret = ret]

\* The rows of the list that cleanupOrphanedBlobs goes on to delete.
ToDelete(rows, tradeIds) ==
  SelectSeq(rows, LAMBDA blob : blob.tradeId \notin tradeIds)

\* Task i runs from where it is up to its next await, or to its end.
step(i) ==
  /\ i \in 1..Len(tasks)
  /\ LET task == tasks[i] IN
     /\ task.pc # "done"
     /\ CASE task.op = "attachChartImage" ->
             IF task.pc = "start"
               THEN /\ tasks' = [tasks EXCEPT ![i].pc = "save"]
                    /\ UNCHANGED <<trades, blobs>>
               ELSE LET r == attachChartImage(blobs, task.id, "beforeEntry",
                                              TaskFile, TaskBlobId, "ok")
                    IN /\ blobs' = r.store
                       /\ tasks' = [tasks EXCEPT
                                      ![i] = Done(task, Succeeded(r.ret.success))]
                       /\ UNCHANGED trades
          [] task.op = "deleteChartImage" ->
             LET r == deleteChartImage(blobs, NoId, "beforeEntry",
                                       ChartImage("blob", task.id, 3), "ok")
             IN /\ blobs' = r.store
                /\ tasks' = [tasks EXCEPT ![i] = Done(task, Succeeded(r.ret))]
                /\ UNCHANGED trades
          [] task.op = "deleteTradeChartImages" ->
             LET r == deleteTradeChartImages(blobs, task.id, "ok", {})
             IN /\ blobs' = r.store
                /\ tasks' = [tasks EXCEPT ![i] = Done(task, Succeeded(r.ret))]
                /\ UNCHANGED trades
          [] task.op = "createTrade" ->
             /\ trades' = trades \cup {task.id}
             /\ tasks' = [tasks EXCEPT ![i] = Done(task, Succeeded(TRUE))]
             /\ UNCHANGED blobs
          [] task.op = "deleteTrade" ->
             LET r == deleteTradeChartImages(blobs, task.id, "ok", {})
             IN /\ trades' = trades \ {task.id}
                /\ blobs' = r.store
                /\ tasks' = [tasks EXCEPT ![i] = Done(task, Succeeded(r.ret))]
          [] task.op = "cleanupOrphanedBlobs" ->
             CASE task.pc = "start" ->
                    /\ tasks' = [tasks EXCEPT
                         ![i].pc = "getAllTrades",
                         ![i].allBlobs = getAllChartImageBlobs(blobs, "ok").ret]
                    /\ UNCHANGED <<trades, blobs>>
               [] task.pc = "getAllTrades" ->
                    LET tradeIds == getAllTrades(blobs, trades, "ok").ret
                        rest == ToDelete(task.allBlobs, tradeIds)
                    IN /\ tasks' = [tasks EXCEPT
                            ![i] = IF rest = <<>>
                                     THEN Done(task, Cleaned([cleaned |-> 0, errors |-> 0]))
                                     ELSE [task EXCEPT !.pc = "deleteChartImageBlob",
                                                       !.tradeIds = tradeIds,
                                                       !.allBlobs = rest]]
                       /\ UNCHANGED <<trades, blobs>>
               [] task.pc = "deleteChartImageBlob" ->
                    LET blob == Head(task.allBlobs)
                        deleted == deleteChartImageBlob(blobs, blob.id, "ok")
                        counts == [cleaned |-> task.ret.cleaned + (IF deleted.ret THEN 1 ELSE 0),
                                   errors |-> task.ret.errors + (IF deleted.ret THEN 0 ELSE 1)]
                        rest == Tail(task.allBlobs)
                    IN /\ blobs' = deleted.store
                       /\ tasks' = [tasks EXCEPT
                            ![i] = IF rest = <<>>
                                     THEN Done(task, Cleaned(counts))
                                     ELSE [task EXCEPT !.ret = Cleaned(counts),
                                                       !.allBlobs = rest]]
                       /\ UNCHANGED trades
  /\ UNCHANGED outsideTasks

NextTasks == \E i \in 1..MaxTasks : step(i)

\* The operations of `order` run one after another from the start.
RECURSIVE Serial(_, _)
Serial(order, state) ==
  IF order = <<>> THEN state
  ELSE LET i == Head(order)
           task == tasks[i]
           after ==
             CASE task.op = "attachChartImage" ->
                    LET r == attachChartImage(state.blobs, task.id, "beforeEntry",
                                              TaskFile, TaskBlobId, "ok")
                    IN [trades |-> state.trades, blobs |-> r.store,
                        ret |-> Succeeded(r.ret.success)]
               [] task.op = "deleteChartImage" ->
                    LET r == deleteChartImage(state.blobs, NoId, "beforeEntry",
                                              ChartImage("blob", task.id, 3), "ok")
                    IN [trades |-> state.trades, blobs |-> r.store,
                        ret |-> Succeeded(r.ret)]
               [] task.op = "deleteTradeChartImages" ->
                    LET r == deleteTradeChartImages(state.blobs, task.id, "ok", {})
                    IN [trades |-> state.trades, blobs |-> r.store,
                        ret |-> Succeeded(r.ret)]
               [] task.op = "createTrade" ->
                    [trades |-> state.trades \cup {task.id}, blobs |-> state.blobs,
                     ret |-> Succeeded(TRUE)]
               [] task.op = "deleteTrade" ->
                    LET r == deleteTradeChartImages(state.blobs, task.id, "ok", {})
                    IN [trades |-> state.trades \ {task.id}, blobs |-> r.store,
                        ret |-> Succeeded(r.ret)]
               [] task.op = "cleanupOrphanedBlobs" ->
                    LET r == cleanupOrphanedBlobs(state.blobs, state.trades,
                                                  "ok", "ok", AllOk)
                    IN [trades |-> state.trades, blobs |-> r.store,
                        ret |-> Cleaned(r.ret)]
       IN Serial(Tail(order),
                 [trades |-> after.trades, blobs |-> after.blobs,
                  rets |-> [state.rets EXCEPT ![i] = after.ret]])

\* ----------------------------------------------------------- claims
Attached == last.op = "handleFileSelect" /\ last.ui.attachCalled
AttachedNext == last'.op = "handleFileSelect" /\ last'.ui.attachCalled

RowsWithId(store, id) == {r \in store : r.id = id}

\* C1: attachChartImage on a valid image under the size threshold returns
\* success with an "inline" descriptor and writes no blob row (it makes no
\* gateway call and the store is unchanged); on a valid image above the
\* threshold, the gateway saving the row, it returns success with storage
\* "blob" and a blobId, and right after the call the store holds exactly one
\* row with that id, carrying the given tradeId and imageType.
C1_AttachChoosesStorage ==
  [][AttachedNext =>
       /\ last'.arg.size < INLINE_THRESHOLD =>
            /\ last'.ret.success
            /\ last'.ret.chartImage.storage = "inline"
            /\ last'.calls = <<>>
            /\ blobs' = blobs
       /\ (last'.arg.size > INLINE_THRESHOLD /\ last'.outs.call = "ok") =>
            /\ last'.ret.success
            /\ last'.ret.chartImage.storage = "blob"
            /\ last'.ret.chartImage.blobId \in BlobIds
            /\ RowsWithId(blobs', last'.ret.chartImage.blobId)
                 = {[id |-> last'.ret.chartImage.blobId,
                     tradeId |-> last'.tradeId,
                     imageType |-> last'.imageType,
                     size |-> last'.arg.size]}
            /\ blobs' \ RowsWithId(blobs', last'.ret.chartImage.blobId) = blobs]_vars

\* A large image was attached and its row is in the store next to another row.
C1_Witness ==
  /\ Attached
  /\ last.arg.size > INLINE_THRESHOLD
  /\ last.ret.success
  /\ last.ret.chartImage.storage = "blob"
  /\ RowsWithId(blobs, last.ret.chartImage.blobId) # {}
  /\ Cardinality(blobs) = 2

\* C2: every descriptor with storage "blob" in a slot of a trade has a blobId
\* that references an existing blob row.
C2_SlotBlobsResolve ==
  \A t \in trades, ty \in ImageTypes :
    slots[t][ty].storage = "blob" => RowsWithId(blobs, slots[t][ty].blobId) # {}

\* C3: when a file is uploaded into a slot that holds an image (a replace),
\* the blob row of the previous image is deleted, and the store never holds
\* more than one row for the same (tradeId, imageType).
C3_ReplaceDeletesPrevious ==
  [][(AttachedNext /\ last'.ui.uploaded) =>
       LET previous == slots[last'.tradeId][last'.imageType] IN
         /\ previous.storage = "blob" => RowsWithId(blobs', previous.blobId) = {}
         /\ \A r1, r2 \in blobs' :
              (r1.tradeId = r2.tradeId /\ r1.imageType = r2.imageType) => r1 = r2]_vars

\* C4: deleteChartImage on a "blob" descriptor asks the gateway to delete the
\* row whose id is the descriptor's blobId and nothing else, and with the
\* gateway deleting it the store loses exactly that row; on an "inline"
\* descriptor it makes no gateway call and every blob row stays as it was.
C4_DeleteFrame ==
  [][last'.op = "handleDelete" =>
       LET chartImage == last'.arg IN
         /\ chartImage.storage = "inline" =>
              /\ last'.calls = <<>>
              /\ blobs' = blobs
         /\ chartImage.storage = "blob" =>
              /\ last'.calls = <<Call("deleteChartImageBlob", chartImage.blobId)>>
              /\ blobs \ blobs' \subseteq RowsWithId(blobs, chartImage.blobId)
              /\ blobs' \subseteq blobs
              /\ last'.outs.call = "ok" => RowsWithId(blobs', chartImage.blobId) = {}]_vars

\* A blob-backed image was deleted, its row is gone and another row is left.
C4_Witness ==
  /\ last.op = "handleDelete"
  /\ last.arg.storage = "blob"
  /\ last.outs.call = "ok"
  /\ RowsWithId(blobs, last.arg.blobId) = {}
  /\ blobs # {}

CleanupAllOk(outs) ==
  /\ outs.list = "ok"
  /\ outs.trades = "ok"
  /\ \A id \in DOMAIN outs.delete : outs.delete[id] = "ok"

\* C5: after cleanupOrphanedBlobs every row whose tradeId is the id of a
\* current trade is still there unchanged and only rows of absent trades are
\* gone; with every gateway call succeeding the store is the store before
\* the call minus exactly the rows whose tradeId is no current trade's id.
C5_CleanupRemovesExactlyOrphans ==
  [][last'.op = "cleanupOrphanedBlobs" =>
       /\ blobs' \subseteq blobs
       /\ blobs \ blobs' \subseteq Orphans(blobs, trades)
       /\ CleanupAllOk(last'.outs) => blobs' = blobs \ Orphans(blobs, trades)]_vars

\* A cleanup removed an orphan and left the row of a current trade.
C5_Witness ==
  /\ last.op = "cleanupOrphanedBlobs"
  /\ CleanupAllOk(last.outs)
  /\ last.ret.cleaned >= 1
  /\ blobs # {}

DeleteCalls(calls) ==
  {calls[i][2] : i \in {j \in 1..Len(calls) : calls[j][1] = "deleteChartImageBlob"}}

\* C6: cleanupOrphanedBlobs does not stop at the first failed deletion: with
\* the rows and the trades listed, for every pattern of deletion failures it
\* attempts to delete every orphaned row, cleaned + errors is the number of
\* orphaned rows and cleaned is the number of rows actually removed.
C6_CleanupCountsEveryOrphan ==
  [][(last'.op = "cleanupOrphanedBlobs"
        /\ last'.outs.list = "ok" /\ last'.outs.trades = "ok") =>
       LET orphans == Orphans(blobs, trades) IN
         /\ DeleteCalls(last'.calls) = {r.id : r \in orphans}
         /\ last'.ret.cleaned + last'.ret.errors = Cardinality(orphans)
         /\ last'.ret.cleaned = Cardinality(blobs \ blobs')]_vars

ServiceOps ==
  {"handleFileSelect", "handleDelete", "deleteTrade", "deleteTradeChartImages",
   "getChartImageDataUrl", "getStorageStats", "cleanupOrphanedBlobs"}

Counts == 0..MaxBlobs

\* C7: whatever the gateway calls do (succeed, report a failure or throw),
\* attachChartImage, getChartImageDataUrl, deleteChartImage,
\* deleteTradeChartImages, getStorageStats and cleanupOrphanedBlobs return a
\* normal result (success flag, URL or null, boolean, counts) and propagate
\* no exception.
C7_NoExceptionEscapes ==
  last.op \in ServiceOps =>
    /\ ~last.threw
    /\ (last.op = "handleFileSelect" /\ last.ui.attachCalled) =>
         last.ret.success \in BOOLEAN
    /\ last.op = "getChartImageDataUrl" =>
         last.ret.kind \in {"data", "blob", "null"}
    /\ last.op \in {"handleDelete", "deleteTrade", "deleteTradeChartImages"} =>
         last.ret.value \in BOOLEAN
    /\ last.op = "getStorageStats" =>
         last.ret.totalImages \in Counts
    /\ last.op = "cleanupOrphanedBlobs" =>
         last.ret.cleaned \in Counts /\ last.ret.errors \in Counts

\* A cleanup whose deletion threw returned counts.
C7_Witness ==
  /\ last.op = "cleanupOrphanedBlobs"
  /\ \E id \in DOMAIN last.outs.delete : last.outs.delete[id] = "throw"
  /\ ~last.threw
  /\ last.ret.errors = 1

\* C8: if saving the blob row fails during attachChartImage (the gateway
\* reports false or throws), the call returns success = false with an error
\* and no descriptor, ChartImageUpload shows an error and does not invoke
\* onImageUploaded, and the slot and the store stay as they were.
C8_FailedSaveFailsAttach ==
  [][(AttachedNext /\ last'.outs.call \in {"fail", "throw"}) =>
       /\ ~last'.ret.success
       /\ last'.ret.error
       /\ last'.ret.chartImage = NoImage
       /\ last'.ui.error
       /\ ~last'.ui.uploaded
       /\ slots' = slots
       /\ blobs' = blobs]_vars

\* The save failed while replacing an image: the slot still holds the old one.
C8_Witness ==
  /\ Attached
  /\ last.outs.call \in {"fail", "throw"}
  /\ last.calls = <<Call("saveChartImageBlob", 1)>> \/ last.calls = <<Call("saveChartImageBlob", 2)>>
  /\ last.ui.error
  /\ slots[last.tradeId][last.imageType] # NoImage

DeletedBlobImage == last.op = "handleDelete" /\ last.arg.storage = "blob"

\* C9: whenever the deletion of the blob row fails during deleteChartImage
\* (the gateway reports false or throws), the call returns true and
\* ChartImageUpload clears the slot by invoking onImageDeleted.
C9_FailedDeleteIsSoft ==
  (DeletedBlobImage /\ last.outs.call \in {"fail", "throw"}) =>
    /\ last.ret.value = TRUE
    /\ last.ui.deleted
    /\ slots[last.tradeId][last.imageType] = NoImage

\* Two letters that differ at most in case.
SameLetter(c, d) == c = d \/ {c, d} \in {{"a", "A"}, {"b", "B"}}

ContainsIgnoringCase(str, text) ==
  \E k \in 0..(Len(str) - Len(text)) :
    \A j \in 1..Len(text) : SameLetter(str[k + j], text[j])

Matches(img) ==
  /\ filter = "all" \/ img.imageType = filter
  /\ symbolSearch = <<>> \/ ContainsIgnoringCase(img.tradeName, symbolSearch)

MatchingIndexes == {i \in 1..Len(allImages) : Matches(allImages[i])}

\* The k-th smallest index of a matching image.
NthMatching(k) ==
  CHOOSE i \in MatchingIndexes :
    Cardinality({j \in MatchingIndexes : j <= i}) = k

\* C10: the filtered list is exactly the images of the loaded list whose
\* imageType matches the type filter (all for "all") and whose trade symbol
\* contains the search text ignoring case (all for an empty search), in the
\* order of the loaded list.
C10_FilteredIsIntersectionInOrder ==
  /\ Len(filteredImages) = Cardinality(MatchingIndexes)
  /\ \A k \in 1..Len(filteredImages) :
       filteredImages[k] = allImages[NthMatching(k)]

\* Both filters are set, the search matches only when case is ignored, and
\* the filtered list is a proper, non-empty part of the loaded list.
C10_Witness ==
  /\ filter # "all"
  /\ symbolSearch = <<"a">>
  /\ Len(filteredImages) = 1
  /\ Len(allImages) = 2
  /\ filteredImages[1].tradeName = <<"A", "b">>

\* What navigation may write besides nothing: index, zoom, pan, preloaded set.
NavigationFrame == <<currentIndex, zoom, position, preloadedImages>>

LastIndex == Len(filteredImages) - 1

\* C11: navigatePrevious at index 0 and navigateNext at or beyond the last
\* index of the filtered list (an empty list included) change nothing: index,
\* zoom, pan and preloaded set stay as they were.  Otherwise the index moves
\* by exactly one, and an index within 0..length-1 stays within it.
C11_NavigationClamped ==
  isOpen =>
    /\ currentIndex = 0 =>
         ~ENABLED (navigatePrevious /\ NavigationFrame' # NavigationFrame)
    /\ currentIndex >= LastIndex =>
         ~ENABLED (navigateNext /\ NavigationFrame' # NavigationFrame)
    /\ currentIndex > 0 =>
         /\ ENABLED navigatePrevious
         /\ ~ENABLED (navigatePrevious /\ currentIndex' # currentIndex - 1)
    /\ currentIndex < LastIndex =>
         /\ ENABLED navigateNext
         /\ ~ENABLED (navigateNext /\ currentIndex' # currentIndex + 1)
    /\ currentIndex \in 0..LastIndex =>
         ~ENABLED (/\ navigateNext \/ navigatePrevious
                   /\ currentIndex' \notin 0..LastIndex')

\* C11 as stated: navigateNext changes nothing only at the last index and
\* moves the index by exactly one at every other index.
C11_AsStated ==
  isOpen =>
    /\ currentIndex = 0 =>
         ~ENABLED (navigatePrevious /\ NavigationFrame' # NavigationFrame)
    /\ currentIndex = LastIndex =>
         ~ENABLED (navigateNext /\ NavigationFrame' # NavigationFrame)
    /\ currentIndex # 0 =>
         ~ENABLED (navigatePrevious /\ currentIndex' # currentIndex - 1)
    /\ currentIndex # LastIndex =>
         ~ENABLED (navigateNext /\ currentIndex' # currentIndex + 1)

\* The last of two images is shown zoomed and panned: navigateNext has
\* nothing to move to and navigatePrevious has.
C11_Witness ==
  /\ isOpen /\ ~isLoading
  /\ Len(filteredImages) = 2
  /\ currentIndex = 1
  /\ zoom # One
  /\ position # Origin

\* C12: the zoom factor is always within [0.5, 5]; zoom-in sets it to 1.5
\* times its value, or to 5 when that is more, and zoom-out to its value
\* divided by 1.5, or to 0.5 when that is less.
C12_ZoomBounded ==
  /\ ~Less(zoom, [n |-> 1, d |-> 2])
  /\ ~Less([n |-> 5, d |-> 1], zoom)
  /\ isOpen =>
       LET more == [n |-> 3 * zoom.n, d |-> 2 * zoom.d]
           less == [n |-> 2 * zoom.n, d |-> 3 * zoom.d]
           zoomedIn == IF more.n > 5 * more.d THEN 5 * zoom'.d = zoom'.n
                       ELSE zoom'.n * more.d = more.n * zoom'.d
           zoomedOut == IF 2 * less.n < less.d THEN 2 * zoom'.n = zoom'.d
                        ELSE zoom'.n * less.d = less.n * zoom'.d
       IN /\ ENABLED handleZoomIn
          /\ ~ENABLED (handleZoomIn /\ ~zoomedIn)
          /\ ENABLED handleZoomOut
          /\ ~ENABLED (handleZoomOut /\ ~zoomedOut)

\* Zooming in has hit the upper limit and an image is shown.
C12_Witness ==
  /\ ImageShown
  /\ zoom = MAX_ZOOM
  /\ isDragging

\* An entry is present when the property holds a value: neither undefined
\* nor null.
Present(entry) ==
  entry.type # "undefined" /\ ~(entry.type = "object" /\ ~entry.truthy)

\* An object with string id, filename and mimeType, numeric size, Date
\* uploadedAt, storage "inline" or "blob" and an allowed mimeType.
WellFormed(entry) ==
  /\ entry.type = "object" /\ entry.truthy
  /\ entry.properties.id = "string"
  /\ entry.properties.filename = "string"
  /\ entry.properties.mimeType.type = "string"
  /\ entry.properties.size = "number"
  /\ entry.properties.uploadedAt = "Date"
  /\ entry.properties.storage \in {"inline", "blob"}
  /\ entry.properties.mimeType.text \in {"image/png", "image/jpeg", "image/webp"}

\* C13: validateChartAttachments returns false for a value that is not an
\* object or is empty, false for an object in which a present beforeEntry or
\* afterExit entry is not a well-formed chart image, and true for an object
\* whose present entries are all well-formed.
C13_ValidatesPresentEntries ==
  validation.done =>
    LET value == validation.value
        entries == {value.entries.beforeEntry, value.entries.afterExit}
    IN validation.ret =
         (/\ value.type = "object" /\ value.truthy
          /\ \A entry \in entries : Present(entry) => WellFormed(entry))

\* C14: deleteTradeChartImages(tradeId) asks the gateway once to delete the
\* blob rows of that trade; the rows of every other trade stay as they were,
\* no row is added, with the gateway succeeding no row of the trade is left,
\* and the result is true also when the gateway reports a failure.
C14_DeleteTradeImages ==
  [][last'.op \in {"deleteTradeChartImages", "deleteTrade"} =>
       LET tradeId == last'.tradeId IN
         /\ last'.calls = <<Call("deleteTradeChartImageBlobs", tradeId)>>
         /\ blobs' \ RowsOfTrade(blobs', tradeId) = blobs \ RowsOfTrade(blobs, tradeId)
         /\ blobs' \subseteq blobs
         /\ last'.outs.call = "ok" => RowsOfTrade(blobs', tradeId) = {}
         /\ last'.outs.call \in {"ok", "fail"} => last'.ret.value = TRUE]_vars

\* The gateway reported a failure, a row of the trade is left, a row of
\* another trade is there, and the result is true.
C14_Witness ==
  /\ last.op = "deleteTradeChartImages"
  /\ last.outs.call = "fail"
  /\ last.ret.value = TRUE
  /\ RowsOfTrade(blobs, last.tradeId) # {}
  /\ blobs \ RowsOfTrade(blobs, last.tradeId) # {}

RECURSIVE TotalSize(_)
TotalSize(rows) ==
  IF rows = {} THEN 0
  ELSE LET row == CHOOSE r \in rows : TRUE
       IN row.size + TotalSize(rows \ {row})

\* C15: getStorageStats returns blobImages and totalImages equal to the
\* number of blob rows, blobSize and totalSize equal to the sum of their
\* sizes, inlineImages and inlineSize 0; all six are 0 when listing the blob
\* rows fails.
C15_StatsOverBlobRows ==
  last.op = "getStorageStats" =>
    /\ last.ret.inlineImages = 0 /\ last.ret.inlineSize = 0
    /\ last.outs.call = "ok" =>
         /\ last.ret.blobImages = Cardinality(blobs)
         /\ last.ret.totalImages = Cardinality(blobs)
         /\ last.ret.blobSize = TotalSize(blobs)
         /\ last.ret.totalSize = TotalSize(blobs)
    /\ last.outs.call = "throw" =>
         /\ last.ret.blobImages = 0 /\ last.ret.totalImages = 0
         /\ last.ret.blobSize = 0 /\ last.ret.totalSize = 0

\* Statistics were taken over two blob rows while a slot holds an inline
\* image.
C15_Witness ==
  /\ last.op = "getStorageStats"
  /\ last.outs.call = "ok"
  /\ last.ret.totalImages = 2
  /\ last.ret.totalSize > 2
  /\ \E t \in TradeIds, ty \in ImageTypes : slots[t][ty].storage = "inline"

\* A file of a type that is not allowed or larger than the size limit.
FailsValidation(file) ==
  \/ file.mimeType \notin {"image/png", "image/jpeg", "image/webp"}
  \/ file.size > MAX_FILE_SIZE

C17_ObjectUrlsRevoked ==
  \A n \in 1..MaxFetches :
    (createdUrls >= n) ~> (n \in revokedUrls \/ (mounted /\ previewUrl.n = n))

Orders ==
  {order \in [1..MaxTasks -> 1..MaxTasks] :
     \A i, j \in 1..MaxTasks : i # j => order[i] # order[j]}

\* C18: when operations that ran interleaved at their await points have all
\* finished, the trades, the blob rows and the results are those of running
\* the same operations one after another in some order.
C18_Serializable ==
  (tasks # <<>> /\ \A i \in 1..Len(tasks) : tasks[i].pc = "done") =>
    \E order \in Orders :
      Serial(order, [trades |-> start.trades, blobs |-> start.blobs,
                     rets |-> [i \in 1..Len(tasks) |-> NoResult]])
        = [trades |-> trades, blobs |-> blobs,
           rets |-> [i \in 1..Len(tasks) |-> tasks[i].ret]]

\* C19: whenever the viewer is not loading and the filtered list is not
\* empty, the current index is an index of the filtered list.
C19_IndexInRange ==
  (~isLoading /\ Len(filteredImages) > 0) =>
    (0 <= currentIndex /\ currentIndex < Len(filteredImages))

\* C20: a call of loadAllImages sets isLoading and in the end sets it back
\* to false: the viewer does not stay loading forever.
C20_LoadingEnds == isLoading ~> ~isLoading

\* The URLs that belong to a currentImage: its dataUrl, or what
\* getChartImageDataUrl can return for it; null when there is no image.
UrlsOf(image) ==
  IF image = NoPreviewImage THEN {NullUrl}
  ELSE IF image.dataUrl THEN {DataUrl}
  ELSE {getChartImageDataUrl(StoreWith(found, image.blobId), image, out).ret :
          found \in BOOLEAN, out \in Outcomes}

\* C21: once no call of getChartImageDataUrl is pending, the preview URL of
\* a mounted ChartImageUpload is one that belongs to its currentImage, null
\* when there is none: a fetch started for an earlier image has not
\* overwritten the preview of a later one.
C21_PreviewOfCurrentImage ==
  (mounted /\ fetches = <<>>) => previewUrl.url \in UrlsOf(previewImage)

\* C23: isUploading is set in every state in which a call of
\* attachChartImage started by handleFileSelect is pending, also when
\* another file is selected or dropped meanwhile; and when no call is
\* pending isUploading is not set and the progress is 0.
C23_UploadingWhilePending ==
  /\ uploads # <<>> => isUploading
  /\ uploads = <<>> => (~isUploading /\ uploadProgress = 0)

\* The images of the filtered list whose trade symbol is the symbol, by index.
IndexesOfSymbol(filtered, symbol) ==
  {i \in 0..(Len(filtered) - 1) : filtered[i + 1].tradeName = symbol}

\* What holds after a symbol was selected: the search is the symbol, the
\* dropdown is closed, the current image is the first one of the symbol.
Selected(filtered, symbol, search, dropdown, index) ==
  /\ search = symbol
  /\ ~dropdown
  /\ IndexesOfSymbol(filtered, symbol) # {} =>
       /\ index \in IndexesOfSymbol(filtered, symbol)
       /\ \A i \in IndexesOfSymbol(filtered, symbol) : index <= i

\* C22: after handleSymbolSelect(symbol) and the effects it triggers, the
\* symbol search is the selected symbol, the dropdown is closed and the
\* current image is the first image of the filtered list whose trade symbol
\* is the selected symbol.
C22_SymbolSelected ==
  \A symbol \in TradeNames :
    ~ENABLED (/\ handleSymbolSelect(symbol)
              /\ ~Selected(Filtered(allImages', filter', symbolSearch'), symbol,
                           symbolSearch', showSymbolDropdown', currentIndex'))

\* ------------------------------------------------- specifications
Init ==
  /\ InitStore /\ InitViewer /\ InitValidation /\ InitPreview /\ InitTasks
  /\ InitUpload

\* Every value of ChartAttachmentsValues is handed to validateChartAttachments.
InitValidate ==
  /\ InitStore /\ InitViewer /\ InitPreview /\ InitTasks /\ InitUpload
  /\ validation \in {Unvalidated(value) : value \in ChartAttachmentsValues}

Spec == Init /\ [][NextStore]_vars

SpecViewer == Init /\ [][NextViewer]_vars

SpecZoom == Init /\ [][NextZoom]_vars

SpecValidate == InitValidate /\ [][NextValidate]_vars

\* The viewer is opened and closed and loads its images.  A pending call of
\* loadAllImages goes on: the gateway answers or throws, and each FileReader
\* ends its read, with a result or with an error.
Settles ==
  \E k \in 1..MaxLoads :
    \/ \E images \in ImageLists : loadAllImages(k, images)
    \/ loadAllImagesFails(k)
    \/ loadAllImagesStalls(k)

NextLoad == LifecycleActions(ImageLists, {NoId} \cup ImageIds)

SpecLoad == Init /\ [][NextLoad]_vars /\ WF_vars(Settles)

\* MaxTasks operations start at the same time on some trades and rows.
InitInterleaved ==
  /\ InitViewer /\ InitValidation /\ InitPreview /\ InitUpload
  /\ slots = [t \in TradeIds |-> EmptySlots]
  /\ last = Last("init", NoId, "none", NoArg, NoCalls, Returned(NoArg, {}, <<>>), NoUi)
  /\ trades \in SUBSET TradeIds
  /\ blobs \in SUBSET StartRows
  /\ tasks \in [1..MaxTasks -> StartTasks]
  /\ start = [trades |-> trades, blobs |-> blobs]

SpecInterleaved == InitInterleaved /\ [][NextTasks]_vars

\* Every pending call of getChartImageDataUrl resolves: the gateway answers
\* or throws, and the catch turns a throw into null.
SpecPreview == Init /\ [][NextPreview]_vars /\ WF_vars(Resolves)

\* The component of a trade that exists and has no images yet.
InitUploads ==
  /\ InitViewer /\ InitValidation /\ InitPreview /\ InitTasks /\ InitUpload
  /\ trades \in {{t} : t \in TradeIds}
  /\ slots = [t \in TradeIds |-> EmptySlots]
  /\ blobs = {}
  /\ last = Last("init", NoId, "none", NoArg, NoCalls, Returned(NoArg, {}, <<>>), NoUi)

SpecUpload == InitUploads /\ [][NextUpload]_vars
====
